---- MODULE Spec2Model ----
(***************************************************************************)
(* Model of the sliding window of minute bars kept by Database             *)
(* (src/algo/main.cpp, the part that is database/database.cpp): the        *)
(* doubly linked Queue sma_bars, Database::update_bars and the indicators  *)
(* get_sma / get_ema that walk it, with Time's minute arithmetic.  Spec is *)
(* the Database as main drives it; SpecScenario fixes the source;          *)
(* SpecSourceFails lets a query throw; SpecTime, SpecRange, SpecBar and    *)
(* SpecQueue exercise Time, get_bars, get_bar and the Queue on their own.  *)
(*                                                                         *)
(* Pointers are node identifiers, NULL is 0.  A Bar lives inside the node  *)
(* that holds the pointer to it; its field ptr says whether the pointer is *)
(* null, points to a live Bar, or to a Bar that was deleted.  dropped      *)
(* counts the Bars whose last pointer the latest call lost without         *)
(* deleting them.                                                          *)
(* A null dereference ends the process (fault = "null_deref"): the build   *)
(* is unoptimised (-g, no -O), so the access traps.  An exception thrown   *)
(* by the source leaves the call (fault = "exception"); nothing in the     *)
(* program catches it.                                                     *)
(***************************************************************************)
EXTENDS Integers, Sequences, FiniteSets, TLC

VARIABLES now, ticks, sma_bars, heap, fault, op, log, dropped

vars == <<now, ticks, sma_bars, heap, fault, op, log, dropped>>

\* ---------------------------------------------------------------- bounds
MaxCap == 2
MaxTicks == 2
MaxLog == 5

\* ------------------------------------------------------------- constants
NULL == 0
NoData == 0
\* The answer of a source whose query throws (mongocxx raises on a transport or
\* storage failure and get_bar catches nothing of it).
Raise == -1
U16 == 2^16
Closes == {100, 103}
Answers == {NoData} \cup Closes

\* ------------------------------------------------------------------ Time
\* A Time is _time[0..2] = <<hour, minute, second>>, each an unsigned short;
\* where only hour and minute are read it is kept as <<hour, minute>>.
\* Time::operator-- as it would be if it did not borrow from the hour.
TimeDecNoBorrow(t) ==
  IF t[2] = 0 THEN [t EXCEPT ![2] = 59]
  ELSE [t EXCEPT ![2] = (t[2] - 1) % U16]

\* Time::operator++ : one minute forward, carry into the hour, no bound.
TimeInc(t) ==
  IF t[2] = 59 THEN [t EXCEPT ![1] = (t[1] + 1) % U16, ![2] = 0]
  ELSE [t EXCEPT ![2] = (t[2] + 1) % U16]

\* Time::operator-- : one minute back, borrow from the hour, no bound.
TimeDec(t) ==
  IF t[2] = 0 THEN [t EXCEPT ![1] = (t[1] - 1) % U16, ![2] = 59]
  ELSE [t EXCEPT ![2] = (t[2] - 1) % U16]

\* Time::operator== compares hour and minute.
TimeEq(a, b) == a[1] = b[1] /\ a[2] = b[2]

\* Time::operator!=
TimeNe(a, b) == ~TimeEq(a, b)

RECURSIVE Back(_, _)
Back(t, n) == IF n = 0 THEN t ELSE Back(TimeDec(t), n - 1)

ToMin(t) == t[1] * 60 + t[2]

\* ------------------------------------------------------------------- Bar
NULLBAR == [ptr |-> "null", hour |-> 0, minute |-> 0, close |-> 0]

Bar(hour_, minute_, close_) ==
  [ptr |-> "live", hour |-> hour_, minute |-> minute_, close |-> close_]

\* What stands for get_bar's result when the query threw instead of returning.
RAISED == [ptr |-> "raise", hour |-> 0, minute |-> 0, close |-> 0]

\* Database::get_bar against a source that answers, for each minute, with the
\* close of the aggregated bar or with NoData, or throws.
get_bar(src, hour, minute) ==
  LET a == src[<<hour, minute>>]
  IN IF a = Raise THEN RAISED
     ELSE IF a = NoData THEN NULLBAR ELSE Bar(hour, minute, a)

\* ------------------------------------------------- get_bar over the ticks
\* Prices are doubles; they are kept as integers in an order-preserving scale
\* on which numeric_limits<double>::max() lies above every price and
\* numeric_limits<double>::min(), the smallest positive normal double, lies
\* above 0 and below every positive price.
DBL_MAX == 1000
DBL_MIN == 1

\* Bar::Bar with all its fields.
BarOHLC(hour_, minute_, open_, close_, low_, high_) ==
  [ptr |-> "live", hour |-> hour_, minute |-> minute_, open |-> open_,
   close |-> close_, low |-> low_, high |-> high_]

\* The for loop of get_bar over the cursor (lines 165-180), from the k-th
\* document on; a is <<min, max, open, temp, first>>.
RECURSIVE CursorLoop(_, _, _)
CursorLoop(result, k, a) ==
  IF k > Len(result) THEN a
  ELSE LET last_price == result[k]
       IN CursorLoop(result, k + 1,
            [min |-> IF last_price < a.min THEN last_price ELSE a.min,
             max |-> IF last_price > a.max THEN last_price ELSE a.max,
             open |-> IF a.first THEN last_price ELSE a.open,
             temp |-> last_price,
             first |-> FALSE])

\* Database::get_bar (lines 160-184) given the LAST_PRICE of the documents the
\* query returned, in cursor order; open is not initialised before the loop.
get_bar_of(result, hour, minute) ==
  LET a == CursorLoop(result, 1,
             [min |-> DBL_MAX, max |-> DBL_MIN, open |-> "uninitialised",
              temp |-> 0, first |-> TRUE])
      close == a.temp
  IN IF ~(a.min = DBL_MAX \/ a.max = DBL_MIN)
     THEN BarOHLC(hour, minute, a.open, close, a.min, a.max)
     ELSE NULLBAR

\* ------------------------------------------------------------------ heap
EmptyHeap == [i \in {} |-> 0]

NewId(h) == CHOOSE i \in 1..(Cardinality(DOMAIN h) + 1) :
              i \notin DOMAIN h /\ \A j \in 1..(i - 1) : j \in DOMAIN h

\* Queue::Node constructors: Node(Bar*), Node(Bar*, Node* next), Node(Node* prev, Bar*).
Node(value_, next_, prev_) ==
  [value |-> value_, next |-> next_, prev |-> prev_, freed |-> FALSE]

PtrFault(w, p) ==
  IF p = NULL THEN "null_deref"
  ELSE IF p \notin DOMAIN w.heap \/ w.heap[p].freed THEN "use_after_free"
  ELSE "none"

Crash(w, f) == [w EXCEPT !.fault = f]

Put(h, p, n) == [i \in DOMAIN h \cup {p} |-> IF i = p THEN n ELSE h[i]]

\* ----------------------------------------------------------------- Queue
\* Queue::Queue(max_size) with the members' defaults: empty, no time observed.
NoTime == <<U16 - 1, U16 - 1>>

Queue(max_size_) ==
  [head |-> NULL, tail |-> NULL, size |-> 0, max_size |-> max_size_,
   last_hour |-> NoTime[1], last_min |-> NoTime[2]]

\* Queue::enqueueHead
enqueueHead(w, bar) ==
  IF w.fault # "none" THEN w
  ELSE
    LET q == [w.q EXCEPT !.size = (w.q.size + 1) % U16]
        p == NewId(w.heap)
    IN IF q.head = NULL /\ q.tail = NULL
       THEN [w EXCEPT !.q = [q EXCEPT !.head = p, !.tail = p],
                      !.heap = Put(w.heap, p, Node(bar, NULL, NULL))]
       ELSE IF PtrFault(w, q.head) # "none"
       THEN Crash([w EXCEPT !.q = q], PtrFault(w, q.head))
       ELSE LET h1 == Put(w.heap, p, Node(bar, q.head, NULL))
                h2 == [h1 EXCEPT ![q.head].prev = p]
            IN [w EXCEPT !.q = [q EXCEPT !.head = p], !.heap = h2]

\* enqueue as it would be if it linked the new node at the head.
enqueueAtHead(w, bar) == enqueueHead(w, bar)

\* Queue::enqueue
enqueue(w, bar) ==
  IF w.fault # "none" THEN w
  ELSE
    LET q == [w.q EXCEPT !.size = (w.q.size + 1) % U16]
        p == NewId(w.heap)
    IN IF q.head = NULL /\ q.tail = NULL
       THEN [w EXCEPT !.q = [q EXCEPT !.head = p, !.tail = p],
                      !.heap = Put(w.heap, p, Node(bar, NULL, NULL))]
       ELSE IF PtrFault(w, q.tail) # "none"
       THEN Crash([w EXCEPT !.q = q], PtrFault(w, q.tail))
       ELSE LET h1 == Put(w.heap, p, Node(bar, NULL, q.tail))
                h2 == [h1 EXCEPT ![q.tail].next = p]
            IN [w EXCEPT !.q = [q EXCEPT !.tail = p], !.heap = h2]

\* Queue::dequeue; the result names the node whose Bar pointer is returned.
dequeue(w) ==
  IF w.fault # "none" THEN [w |-> w, node |-> NULL]
  ELSE
    LET q == w.q
        temp == q.head
    IN IF PtrFault(w, q.head) # "none"
       THEN [w |-> Crash(w, PtrFault(w, q.head)), node |-> NULL]
       ELSE IF w.heap[q.head].next = NULL
       THEN [w |-> [w EXCEPT !.q = [q EXCEPT !.head = NULL]], node |-> temp]
       ELSE LET nx == w.heap[q.head].next
            IN IF PtrFault(w, nx) # "none"
               THEN [w |-> Crash(w, PtrFault(w, nx)), node |-> NULL]
               ELSE [w |-> [w EXCEPT !.heap = [w.heap EXCEPT ![nx].prev = NULL],
                                     !.q = [q EXCEPT !.head = nx,
                                                     !.size = (q.size - 1) % U16]],
                     node |-> temp]

\* delete of the Bar a dequeued node points to (delete of a null pointer does nothing).
DeleteBar(w, p) ==
  IF w.fault # "none" \/ p = NULL THEN w
  ELSE IF w.heap[p].value.ptr = "null" THEN w
  ELSE IF w.heap[p].value.ptr = "freed" THEN Crash(w, "double_free")
  ELSE [w EXCEPT !.heap = [w.heap EXCEPT ![p].value.ptr = "freed"]]

\* Queue::peek: head->value, head not tested.
peek(w) ==
  IF PtrFault(w, w.q.head) # "none"
  THEN [w |-> Crash(w, PtrFault(w, w.q.head)), bar |-> NULLBAR]
  ELSE [w |-> w, bar |-> w.heap[w.q.head].value]

\* Queue::iterator::value on the iterator begin() or begin_from_end() made
\* for node: NULL when there is no node.
value(w, node) ==
  IF node = NULL THEN [w |-> w, bar |-> NULLBAR]
  ELSE IF PtrFault(w, node) # "none"
  THEN [w |-> Crash(w, PtrFault(w, node)), bar |-> NULLBAR]
  ELSE [w |-> w, bar |-> w.heap[node].value]

\* Nodes no pointer leads to any more (leaked by dequeue, or deleted and
\* unlinked) are dropped from the heap: the program cannot reach them.
RECURSIVE Reach(_, _)
Reach(h, S) ==
  LET T == S \cup {h[p].next : p \in {x \in S : ~h[x].freed}}
               \cup {h[p].prev : p \in {x \in S : ~h[x].freed}}
      U == (T \ {NULL}) \cap DOMAIN h
  IN IF U = S THEN S ELSE Reach(h, U)

\* Node addresses carry no meaning: the nodes kept are renamed 1, 2, ... in
\* the order met from the tail following prev, then from the head following
\* next, then the rest.
RECURSIVE Chain(_, _, _, _)
Chain(h, p, back, seen) ==
  IF p = NULL \/ p \notin DOMAIN h \/ p \in seen THEN <<>>
  ELSE <<p>> \o Chain(h, IF back THEN h[p].prev ELSE h[p].next, back, seen \cup {p})

RECURSIVE Listed(_)
Listed(S) ==
  IF S = {} THEN <<>>
  ELSE LET m == CHOOSE x \in S : \A y \in S : x <= y
       IN <<m>> \o Listed(S \ {m})

Range(f) == {f[i] : i \in DOMAIN f}

Collect(w) ==
  LET R == Reach(w.heap, ({w.q.head, w.q.tail} \ {NULL}) \cap DOMAIN w.heap)
      h == [p \in R |-> w.heap[p]]
      a == Chain(h, w.q.tail, TRUE, {})
      b == Chain(h, w.q.head, FALSE, Range(a))
      order == a \o b \o Listed(R \ (Range(a) \cup Range(b)))
      new(p) == IF p \in R THEN CHOOSE i \in 1..Len(order) : order[i] = p ELSE p
      dangling(p) == p # NULL /\ p \notin R
  IN IF \E p \in R : dangling(h[p].next) \/ dangling(h[p].prev)
     THEN [w EXCEPT !.heap = h]
     ELSE [w EXCEPT
             !.heap = [i \in 1..Len(order) |->
                         [h[order[i]] EXCEPT !.next = new(h[order[i]].next),
                                             !.prev = new(h[order[i]].prev)]],
             !.q = [w.q EXCEPT !.head = new(w.q.head), !.tail = new(w.q.tail)]]

\* ------------------------------------------------------------ update_bars
\* The fill loop as it would be without its test for a missing bar.
RECURSIVE FillLoopIgnoresGap(_, _, _, _, _)
FillLoopIgnoresGap(w, timeObj, temp, counter, src) ==
  IF w.fault # "none" THEN w
  ELSE IF temp.ptr = "raise" THEN Crash(w, "exception")
  ELSE IF counter < w.q.max_size
  THEN LET w1 == enqueueHead(w, temp)
           t1 == TimeDec(timeObj)
       IN FillLoopIgnoresGap(w1, t1, get_bar(src, t1[1], t1[2]),
                             (counter + 1) % U16, src)
  ELSE IF temp.ptr = "live" THEN [w EXCEPT !.dropped = w.dropped + 1]
  ELSE w

\* The while loop of the fill phase (lines 121-127); temp is what the get_bar
\* before the test returned, and an exception thrown by that get_bar leaves
\* update_bars with the bars enqueued so far in place.
RECURSIVE FillLoop(_, _, _, _, _)
FillLoop(w, timeObj, temp, counter, src) ==
  IF w.fault # "none" THEN w
  ELSE IF temp.ptr = "raise" THEN Crash(w, "exception")
  ELSE IF temp.ptr # "null" /\ counter < w.q.max_size
  THEN LET w1 == enqueueHead(w, temp)
           t1 == TimeDec(timeObj)
       IN FillLoop(w1, t1, get_bar(src, t1[1], t1[2]), (counter + 1) % U16, src)
  ELSE IF temp.ptr = "live" THEN [w EXCEPT !.dropped = w.dropped + 1]
  ELSE w

\* The fill phase as it would be if it started at now itself.
FillPhaseFromNow(w, timeObj, src) ==
  FillLoop(w, timeObj, get_bar(src, timeObj[1], timeObj[2]), w.q.size, src)

\* Fill phase (lines 115-128): always starts one minute before now.
FillPhase(w, timeObj, src) ==
  LET t1 == TimeDec(timeObj)
  IN FillLoop(w, t1, get_bar(src, t1[1], t1[2]), w.q.size, src)

\* The same-minute branch as it would be if it appended the re-fetched bar
\* without unlinking the old tail.
RefreshTailAppends(w, src) ==
  enqueue(w, get_bar(src, w.q.last_hour, w.q.last_min))

\* Same-minute branch (lines 133-137); get_bar is an argument of the Node
\* constructor, so it has returned or thrown before the old tail is deleted.
\* delete of the old tail Node frees the node, not the Bar it points to.
RefreshTail(w, src) ==
  LET q == w.q IN
  IF PtrFault(w, q.tail) # "none" THEN Crash(w, PtrFault(w, q.tail))
  ELSE IF get_bar(src, q.last_hour, q.last_min).ptr = "raise"
  THEN Crash(w, "exception")
  ELSE
    LET temp == w.heap[q.tail].prev
        newTail == NewId(w.heap)
        h1 == Put(w.heap, newTail,
                  Node(get_bar(src, q.last_hour, q.last_min), NULL, temp))
        h2 == [h1 EXCEPT ![q.tail].freed = TRUE]
        lost == IF w.heap[q.tail].value.ptr = "live" THEN 1 ELSE 0
        w2 == [w EXCEPT !.heap = h2, !.dropped = w.dropped + lost]
    IN IF PtrFault(w2, temp) # "none" THEN Crash(w2, PtrFault(w2, temp))
       ELSE [w2 EXCEPT !.heap = [h2 EXCEPT ![temp].next = newTail],
                       !.q = [q EXCEPT !.tail = newTail]]

\* The rollover branch as it would be if it recorded now before it knew that
\* the source has a bar for it.
RolloverRecordsAlways(w, timeObj, src) ==
  LET d == dequeue(w)
      w1 == DeleteBar(d.w, d.node)
      new == get_bar(src, timeObj[1], timeObj[2])
      w2 == IF new.ptr = "raise" THEN Crash(w1, "exception")
            ELSE IF new.ptr = "null" THEN w1 ELSE enqueue(w1, new)
  IN IF w2.fault # "none" THEN w2
     ELSE [w2 EXCEPT !.q = [w2.q EXCEPT !.last_hour = timeObj[1],
                                        !.last_min = timeObj[2]]]

\* Rollover branch (lines 141-147): the head is dequeued and its Bar deleted
\* before the new minute is fetched.
Rollover(w, timeObj, src) ==
  LET d == dequeue(w)
      w1 == DeleteBar(d.w, d.node)
      new == get_bar(src, timeObj[1], timeObj[2])
  IN IF w1.fault # "none" THEN w1
     ELSE IF new.ptr = "raise" THEN Crash(w1, "exception")
     ELSE IF new.ptr = "null" THEN w1
     ELSE LET w2 == enqueue(w1, new)
          IN IF w2.fault # "none" THEN w2
             ELSE [w2 EXCEPT !.q = [w2.q EXCEPT !.last_hour = timeObj[1],
                                                !.last_min = timeObj[2]]]

Branch(q, timeObj) ==
  IF q.size < q.max_size THEN "fill"
  ELSE IF timeObj[1] = q.last_hour /\ timeObj[2] = q.last_min THEN "refresh"
  ELSE "rollover"

\* Database::update_bars; timeObj is Time(), the wall clock.
update_bars(w, timeObj, src) ==
  IF w.fault # "none" THEN w
  ELSE IF Branch(w.q, timeObj) = "fill" THEN FillPhase(w, timeObj, src)
  ELSE IF Branch(w.q, timeObj) = "refresh" THEN RefreshTail(w, src)
  ELSE Rollover(w, timeObj, src)

\* The first minute update_bars asks the source for, and the answer.
FirstFetch(q, timeObj, src) ==
  LET t == IF Branch(q, timeObj) = "fill" THEN TimeDec(timeObj)
           ELSE IF Branch(q, timeObj) = "refresh" THEN <<q.last_hour, q.last_min>>
           ELSE timeObj
  IN get_bar(src, t[1], t[2])

\* The minutes one call of update_bars may ask the source for.
QueryTimes(q, timeObj) ==
  IF Branch(q, timeObj) = "fill"
  THEN {Back(timeObj, i) : i \in 1..(q.max_size - q.size + 1)}
  ELSE IF Branch(q, timeObj) = "refresh" THEN {<<q.last_hour, q.last_min>>}
  ELSE {timeObj}

\* --------------------------------------------------------------- get_bars
\* The body of the loop as it would be if the hour were never advanced.
BarsStepSameHour(src, hour, i, minute_start) ==
  LET bar == get_bar(src, hour, i % 60)
  IN [hour |-> hour,
      asked |-> <<<<hour, i % 60>>>>,
      bars |-> IF bar.ptr # "null" THEN <<bar>> ELSE <<>>]

\* One iteration of the for loop of get_bars (lines 192-194), hour and i being
\* unsigned short: the hour after it, the minute get_bar is asked for, and what
\* is pushed on the vector bars.
BarsStep(src, hour, i, minute_start) ==
  LET h == IF i # minute_start /\ i % 60 = 0 THEN (hour + 1) % U16 ELSE hour
      bar == get_bar(src, h, i % 60)
  IN [hour |-> h,
      asked |-> <<<<h, i % 60>>>>,
      bars |-> IF bar.ptr # "null" THEN <<bar>> ELSE <<>>]

\* The iterations i = lo .. hi of the loop, one after the other, the second
\* half starting with the hour the first half ends with.
RECURSIVE BarsLoop(_, _, _, _, _)
BarsLoop(src, hour, lo, hi, minute_start) ==
  IF lo > hi THEN [hour |-> hour, asked |-> <<>>, bars |-> <<>>]
  ELSE IF lo = hi THEN BarsStep(src, hour, lo, minute_start)
  ELSE LET mid == (lo + hi) \div 2
           a == BarsLoop(src, hour, lo, mid, minute_start)
           b == BarsLoop(src, a.hour, mid + 1, hi, minute_start)
       IN [asked |-> a.asked \o b.asked, bars |-> a.bars \o b.bars, hour |-> b.hour]

\* Database::get_bars (lines 187-197): i runs from minute_start while
\* i <= (hour_end - hour_start) * 60 + minute_end, a bound below 2^16 here.
get_bars(src, hour_start, hour_end, minute_start, minute_end) ==
  BarsLoop(src, hour_start, minute_start,
           ((hour_end - hour_start) * 60) + minute_end, minute_start)

\* ------------------------------------------------------------- indicators
\* A double that is the quotient of two integers is kept as <<num, den>>.
Zero == <<0, 1>>

\* The for loop of get_sma (lines 205-212); node is the iterator's node.
RECURSIVE SmaLoop(_, _, _, _, _)
SmaLoop(w, node, i, offset, sum) ==
  IF i >= offset THEN [w |-> w, val |-> <<sum, offset>>]
  ELSE IF node = NULL THEN [w |-> w, val |-> Zero]
  ELSE IF PtrFault(w, node) # "none"
  THEN [w |-> Crash(w, PtrFault(w, node)), val |-> Zero]
  ELSE LET bar == w.heap[node].value
       IN IF bar.ptr = "null" THEN [w |-> w, val |-> Zero]
          ELSE IF bar.ptr = "freed"
          THEN [w |-> Crash(w, "use_after_free"), val |-> Zero]
          ELSE SmaLoop(w, w.heap[node].prev, i + 1, offset, sum + bar.close)

\* get_sma after its call of update_bars (lines 203-213): the sentinel test,
\* then the walk; w1 is what update_bars left.
SmaRead(w1, offset) ==
  IF w1.fault # "none" THEN [w |-> w1, val |-> Zero]
  ELSE IF offset > w1.q.max_size \/ offset > w1.q.size
  THEN [w |-> w1, val |-> Zero]
  ELSE SmaLoop(w1, w1.q.tail, 0, offset, 0)

\* Database::get_sma: update_bars first, then the sentinel test, then the walk.
get_sma(w, timeObj, src, offset) ==
  SmaRead(update_bars(w, timeObj, src), offset)

\* The recursive get_ema (lines 222-227): it has no base case, so it walks
\* toward the head until it dereferences a null pointer.
RECURSIVE get_ema_rec(_, _, _, _)
get_ema_rec(w, offset, adjOffset, node) ==
  IF node = NULL THEN Crash(w, "null_deref")
  ELSE IF PtrFault(w, node) # "none" THEN Crash(w, PtrFault(w, node))
  ELSE IF w.heap[node].value.ptr = "null" THEN Crash(w, "null_deref")
  ELSE IF w.heap[node].value.ptr = "freed" THEN Crash(w, "use_after_free")
  ELSE get_ema_rec(w, offset, (adjOffset - 1) % U16, w.heap[node].prev)

\* The weight of line 226, 2 / (offset + 1): both operands are of type int
\* (offset is promoted), so the quotient is the integer one.
EmaWeight(offset) == 2 \div (offset + 1)

\* The value the return statement of line 226 computes at one level, for the
\* close of the current bar and the value rest of the recursive call.
EmaLevel(close_, offset, rest) == <<close_ * EmaWeight(offset) + rest, 1>>

\* Database::get_ema (lines 216-220): the sentinel test, without update_bars.
get_ema(w, offset) ==
  IF offset > w.q.max_size \/ offset > w.q.size THEN [w |-> w, val |-> Zero]
  ELSE [w |-> get_ema_rec(w, offset, offset, w.q.tail), val |-> Zero]

\* ------------------------------------------------------------ chain views
\* The nodes from head following next (Queue::begin, iterator::operator++).
RECURSIVE WalkNext(_, _, _)
WalkNext(h, p, fuel) ==
  IF p = NULL \/ p \notin DOMAIN h \/ fuel = 0 THEN <<>>
  ELSE <<p>> \o WalkNext(h, h[p].next, fuel - 1)

\* The nodes from tail following prev (Queue::begin_from_end, operator--).
RECURSIVE WalkPrev(_, _, _)
WalkPrev(h, p, fuel) ==
  IF p = NULL \/ p \notin DOMAIN h \/ fuel = 0 THEN <<>>
  ELSE <<p>> \o WalkPrev(h, h[p].prev, fuel - 1)

FromHead == WalkNext(heap, sma_bars.head, Cardinality(DOMAIN heap))
FromTail == WalkPrev(heap, sma_bars.tail, Cardinality(DOMAIN heap))

\* The Bars of the slots, oldest (head) to newest.
Slots == [i \in 1..Len(FromHead) |-> heap[FromHead[i]].value]
\* The Bars of the slots, newest (tail) to oldest.
SlotsBack == [i \in 1..Len(FromTail) |-> heap[FromTail[i]].value]

Stamp(bar) == <<bar.hour, bar.minute>>
Stamps == [i \in 1..Len(Slots) |-> Stamp(Slots[i])]

\* ----------------------------------------------------------------- state
World == [q |-> sma_bars, heap |-> heap, fault |-> fault, dropped |-> 0]

\* What the last call was: its name, the branch update_bars took, the answer to
\* its first get_bar, last_hour:last_min before it, and what it returned.
Op(name_, branch_, first_, last_, gaps_, offset_, val_) ==
  [name |-> name_, branch |-> branch_, first |-> first_, last |-> last_,
   gaps |-> gaps_,
   gapsize |-> IF gaps_ = 0 THEN 0
               ELSE IF op.gaps = 0 THEN sma_bars.size ELSE op.gapsize,
   offset |-> offset_, val |-> val_]

\* The number of consecutive update_bars calls, up to this one, that were in
\* the fill phase and found no data for their first candidate minute (capped).
Gaps(q, timeObj, src) ==
  IF Branch(q, timeObj) = "fill" /\ FirstFetch(q, timeObj, src).ptr = "null"
  THEN IF op.gaps < 3 THEN op.gaps + 1 ELSE 3
  ELSE 0

LastObserved(q) == <<q.last_hour, q.last_min>>

Commit(w) ==
  LET c == Collect(w)
  IN /\ sma_bars' = c.q
     /\ heap' = c.heap
     /\ fault' = c.fault
     /\ dropped' = c.dropped

InitWith(cap, start) ==
  /\ now = start
  /\ ticks = 0
  /\ sma_bars = Queue(cap)
  /\ heap = EmptyHeap
  /\ fault = "none"
  /\ dropped = 0
  /\ op = Op("init", "none", NULLBAR, NoTime, 0, 0, Zero)
  /\ log = <<>>

\* One call of update_bars against a source src.
UpdateWith(src) ==
  /\ fault = "none"
  /\ Commit(update_bars(World, now, src))
  /\ op' = Op("update_bars", Branch(sma_bars, now), FirstFetch(sma_bars, now, src),
              LastObserved(sma_bars), Gaps(sma_bars, now, src), 0, Zero)
  /\ UNCHANGED <<now, ticks>>

\* Database::Database has returned: its call of update_bars is the first action.
Constructed == op.name # "init"

\* One call of get_sma(ticker, offset) against a source src; w1 is the window
\* as the call's update_bars left it.
GetSmaFrom(w1, src, offset) ==
  /\ Constructed
  /\ fault = "none"
  /\ LET r == SmaRead(w1, offset)
     IN /\ Commit(r.w)
        /\ op' = Op("get_sma", Branch(sma_bars, now), FirstFetch(sma_bars, now, src),
                    LastObserved(sma_bars), Gaps(sma_bars, now, src),
                    offset, r.val)
  /\ UNCHANGED <<now, ticks>>

GetSmaWith(src, offset) ==
  GetSmaFrom(update_bars(World, now, src), src, offset)

\* One call of get_ema(ticker, offset).
GetEmaWith(offset) ==
  /\ Constructed
  /\ fault = "none"
  /\ LET r == get_ema(World, offset)
     IN /\ Commit(r.w)
        /\ op' = Op("get_ema", "none", NULLBAR, LastObserved(sma_bars), op.gaps,
                    offset, r.val)
  /\ UNCHANGED <<now, ticks>>

\* The wall clock reaches the next minute.
ClockTick ==
  /\ Constructed
  /\ fault = "none"
  /\ ticks < MaxTicks
  /\ now' = TimeInc(now)
  /\ ticks' = ticks + 1
  /\ op' = Op("tick", "none", NULLBAR, LastObserved(sma_bars), op.gaps,
              0, Zero)
  /\ dropped' = 0
  /\ UNCHANGED <<sma_bars, heap, fault>>

\* ------------------------------------------------- the general behaviour
StartNow == <<10, 1>>

\* The fill loop stops at the first minute without a bar (or whose query
\* throws), so the minutes before that one are never asked for in the call:
\* they answer NoData here, one answer standing for all.
AskedInTurn(s) ==
  \A i \in 1..(sma_bars.max_size - sma_bars.size) :
    s[Back(now, i)] \in {NoData, Raise} => s[Back(now, i + 1)] = NoData

\* What the source may answer in one call.  The closes play no part in the
\* control flow, so in a fill only the newest minute asked for answers with
\* either close and the older ones with one close or with no data.
Sources ==
  LET T == QueryTimes(sma_bars, now)
      newest == TimeDec(now)
  IN IF Branch(sma_bars, now) = "fill"
     THEN {s \in [T -> Answers] :
             /\ \A t \in T \ {newest} : s[t] \in {NoData, 100}
             /\ AskedInTurn(s)}
     ELSE [T -> Answers]

Offsets == 0..(sma_bars.max_size + 1)

Init == \E cap \in 0..MaxCap : InitWith(cap, StartNow)

UpdateBars == \E src \in Sources : UpdateWith(src) /\ UNCHANGED log

GetSma == \E src \in Sources :
            LET w1 == update_bars(World, now, src)
            IN \E offset \in Offsets : GetSmaFrom(w1, src, offset) /\ UNCHANGED log

GetEma == \E offset \in Offsets : GetEmaWith(offset) /\ UNCHANGED log

Tick == ClockTick /\ UNCHANGED log

Next == UpdateBars \/ GetSma \/ GetEma \/ Tick

Spec == Init /\ [][Next]_vars

\* ------------------------------------------- the scenario of capacity three
\* The source holds bars for 09:30, 09:31 and 09:32, none for 09:33, one for
\* 09:34; the clock starts at 09:32 and log records when update_bars ran.
ScenarioSource ==
  [t \in {<<9, m>> : m \in 20..45} |->
     IF t = <<9, 30>> THEN 100
     ELSE IF t = <<9, 31>> THEN 102
     ELSE IF t = <<9, 32>> THEN 101
     ELSE IF t = <<9, 34>> THEN 105
     ELSE NoData]

InitScenario == InitWith(3, <<9, 32>>)

UpdateScenario ==
  /\ Len(log) < MaxLog
  /\ UpdateWith(ScenarioSource)
  /\ log' = Append(log, now)

GetSmaScenario ==
  /\ Len(log) < MaxLog
  /\ \E offset \in Offsets : GetSmaWith(ScenarioSource, offset)
  /\ log' = Append(log, now)

GetEmaScenario == \E offset \in Offsets : GetEmaWith(offset) /\ UNCHANGED log

TickScenario == ClockTick /\ UNCHANGED log

NextScenario == UpdateScenario \/ GetSmaScenario \/ GetEmaScenario \/ TickScenario

SpecScenario == InitScenario /\ [][NextScenario]_vars

\* ------------------------------------------------- a source that can fail
\* The answers of one call in which some query of the source throws.
FailingSources ==
  LET T == QueryTimes(sma_bars, now)
      newest == TimeDec(now)
  IN {s \in [T -> Answers \cup {Raise}] :
        /\ \E t \in T : s[t] = Raise
        /\ Branch(sma_bars, now) = "fill"
             => (/\ \A t \in T \ {newest} : s[t] \in {NoData, 100, Raise}
                 /\ AskedInTurn(s))}

UpdateFails == \E src \in FailingSources : UpdateWith(src) /\ UNCHANGED log

NextSourceFails == UpdateBars \/ UpdateFails \/ Tick

SpecSourceFails == Init /\ [][NextSourceFails]_vars

\* ------------------------------------------------------- the clock alone
\* Times of day to start from; hour 0 and hour 23 are where a day begins and
\* ends, and the minutes are those next to the carry and to the borrow.
StartHours == {0, 9, 23}
StartMinutes == {0, 1, 30, 58, 59}
Seconds == {0, 30}

InitTime ==
  /\ now \in StartHours \X StartMinutes \X Seconds
  /\ ticks = 0
  /\ sma_bars = Queue(0)
  /\ heap = EmptyHeap
  /\ fault = "none"
  /\ dropped = 0
  /\ log = <<>>
  /\ op = [name |-> "init", other |-> now, eq |-> TRUE, ne |-> FALSE]

\* timeObj++
Increment ==
  /\ ticks < MaxTicks
  /\ now' = TimeInc(now)
  /\ ticks' = ticks + 1
  /\ op' = [name |-> "inc", other |-> now, eq |-> TRUE, ne |-> FALSE]
  /\ UNCHANGED <<sma_bars, heap, fault, dropped, log>>

\* timeObj--
Decrement ==
  /\ ticks < MaxTicks
  /\ now' = TimeDec(now)
  /\ ticks' = ticks + 1
  /\ op' = [name |-> "dec", other |-> now, eq |-> TRUE, ne |-> FALSE]
  /\ UNCHANGED <<sma_bars, heap, fault, dropped, log>>

\* timeObj == other and timeObj != other, for a Time other near timeObj.
Compare ==
  /\ \E h \in {now[1], (now[1] + 1) % U16} : \E m \in {now[2], 0} : \E s \in Seconds :
       op' = [name |-> "cmp", other |-> <<h, m, s>>,
              eq |-> TimeEq(now, <<h, m, s>>), ne |-> TimeNe(now, <<h, m, s>>)]
  /\ UNCHANGED <<now, ticks, sma_bars, heap, fault, dropped, log>>

NextTime == Increment \/ Decrement \/ Compare

SpecTime == InitTime /\ [][NextTime]_vars

\* ------------------------------------------------------ get_bars alone
\* The ends of the ranges asked for: they lie around the turn of an hour, so
\* that a range crosses no, one or two of them, or ends before it starts.
\* The two sources cover the hours around them: one has a bar for every
\* minute, one has a gap every third minute.
RangeHours == {9, 10, 11}
RangeMinutes == {0, 1, 58, 59}
MaxRange == 130

RangeSources ==
  LET T == (8..13) \X (0..59)
  IN {[t \in T |-> 100], [t \in T |-> IF ToMin(t) % 3 = 0 THEN NoData ELSE 103]}

InitRange ==
  /\ now = StartNow
  /\ ticks = 0
  /\ sma_bars = Queue(0)
  /\ heap = EmptyHeap
  /\ fault = "none"
  /\ dropped = 0
  /\ log = <<>>
  /\ \E src \in RangeSources :
       \E hs \in RangeHours : \E he \in RangeHours :
         \E ms \in RangeMinutes : \E me \in RangeMinutes :
           /\ ToMin(<<he, me>>) - ToMin(<<hs, ms>>) < MaxRange
           /\ op = [name |-> "init", src |-> src, from |-> <<hs, ms>>, to |-> <<he, me>>,
                 bars |-> <<>>]

\* One call of get_bars; log takes the minutes get_bar was asked for, in order.
GetBars ==
  /\ op.name = "init"
  /\ LET r == get_bars(op.src, op.from[1], op.to[1], op.from[2], op.to[2])
     IN /\ log' = r.asked
        /\ op' = [op EXCEPT !.name = "get_bars", !.bars = r.bars]
  /\ UNCHANGED <<now, ticks, sma_bars, heap, fault, dropped>>

NextRange == GetBars

SpecRange == InitRange /\ [][NextRange]_vars

\* ------------------------------------------------------- get_bar alone
\* The trade ticks of one ticker-minute: at most MaxCursor documents, priced
\* at zero or above it.
MaxCursor == 4
Prices == {0, 2, 4}

RECURSIVE Cursors(_)
Cursors(n) ==
  IF n = 0 THEN {<<>>}
  ELSE Cursors(n - 1) \cup {Append(c, p) : c \in {d \in Cursors(n - 1) : Len(d) = n - 1},
                                            p \in Prices}

InitBar ==
  /\ now = StartNow
  /\ ticks = 0
  /\ sma_bars = Queue(0)
  /\ heap = EmptyHeap
  /\ fault = "none"
  /\ dropped = 0
  /\ log = <<>>
  /\ \E c \in Cursors(MaxCursor) : op = [name |-> "init", cursor |-> c, bar |-> NULLBAR]

\* One call of get_bar for the minute now, the query returning op.cursor.
GetBar ==
  /\ op.name = "init"
  /\ op' = [op EXCEPT !.name = "get_bar",
                      !.bar = get_bar_of(op.cursor, now[1], now[2])]
  /\ UNCHANGED <<now, ticks, sma_bars, heap, fault, dropped, log>>

NextBar == GetBar

SpecBar == InitBar /\ [][NextBar]_vars

\* ------------------------------------------------------- the Queue alone
\* A Queue used through its own operations, as the commented-out code of
\* main does: the caller enqueues while it is not full.
QueueBars == {Bar(9, 32, 100), Bar(9, 33, 103), Bar(9, 34, 100)}

InitQueue ==
  /\ now = StartNow
  /\ ticks = 0
  /\ \E cap \in 0..MaxCap : sma_bars = Queue(cap)
  /\ heap = EmptyHeap
  /\ fault = "none"
  /\ dropped = 0
  /\ log = <<>>
  /\ op = [name |-> "init", empty |-> TRUE, bar |-> NULLBAR]

QueueOp(name_, bar_) == [name |-> name_, empty |-> sma_bars.size = 0, bar |-> bar_]

Enqueue ==
  /\ fault = "none"
  /\ sma_bars.size < sma_bars.max_size
  /\ \E bar \in QueueBars :
       /\ Commit(enqueue(World, bar))
       /\ op' = QueueOp("enqueue", bar)
  /\ UNCHANGED <<now, ticks, log>>

EnqueueHead ==
  /\ fault = "none"
  /\ sma_bars.size < sma_bars.max_size
  /\ \E bar \in QueueBars :
       /\ Commit(enqueueHead(World, bar))
       /\ op' = QueueOp("enqueueHead", bar)
  /\ UNCHANGED <<now, ticks, log>>

\* The caller takes the Bar dequeue returns.
Dequeue ==
  /\ fault = "none"
  /\ sma_bars.size > 0
  /\ LET d == dequeue(World)
     IN /\ Commit(d.w)
        /\ op' = QueueOp("dequeue",
                         IF d.node = NULL THEN NULLBAR ELSE heap[d.node].value)
  /\ UNCHANGED <<now, ticks, log>>

Peek ==
  /\ fault = "none"
  /\ LET r == peek(World)
     IN Commit(r.w) /\ op' = QueueOp("peek", r.bar)
  /\ UNCHANGED <<now, ticks, log>>

\* begin().value() and begin_from_end().value()
IterValue ==
  /\ fault = "none"
  /\ \E end \in {"begin", "begin_from_end"} :
       LET r == value(World, IF end = "begin" THEN sma_bars.head ELSE sma_bars.tail)
       IN Commit(r.w) /\ op' = QueueOp(end, r.bar)
  /\ UNCHANGED <<now, ticks, log>>

NextQueue == Enqueue \/ EnqueueHead \/ Dequeue \/ Peek \/ IterValue

SpecQueue == InitQueue /\ [][NextQueue]_vars

\* ------------------------------------------------------- the order client
\* src/exec/client.cpp.  Every operation sends one request and turns what the
\* transport hands back into a pair of a Status and a result.  A response is a
\* record: present is FALSE when the transport yielded nothing; body is "order"
\* for the JSON object of one order, "orders" for a JSON array holding one
\* order, and "text" for a body that is not JSON.
HttpStatuses == {200, 201, 204, 207, 404}
Bodies == {"order", "orders", "text"}

\* The transport yielded nothing.
NoResponse == <<FALSE, 0, "">>

\* What the transport can hand back: nothing, or a status and a body.
Transport == BOOLEAN \X HttpStatuses \X Bodies

Response(t) ==
  [present |-> t[1],
   status |-> IF t[1] THEN t[2] ELSE 0,
   body |-> IF t[1] THEN t[3] ELSE ""]

\* What a Status says: which error, for which url, and the status and body of
\* the response it reports.
\* (The records of this section list their fields in the order TLC keeps
\* them, so that normalising a record never reorders it.)
Message(what_, url_, status_, body_) ==
  [status |-> status_, body |-> body_, what |-> what_, url |-> url_]

Status(code_, message_) == [code |-> code_, message |-> message_]

ok(status) == status.code = 0

\* "Call to <url> returned an empty response"
EmptyResponse(url) ==
  Status(1, Message("empty response", url, 0, ""))

\* "Call to <url> returned an HTTP <status>: <body>"
HttpError(url, resp) ==
  Status(1, Message("HTTP", url, resp.status, resp.body))

\* "Received parse error when deserializing orders JSON", and the error of
\* Order::fromJSON.
ParseError(body_) == Status(1, Message("parse", "", 0, body_))

\* A default-constructed Order, and the pair an operation returns.
NoOrder == "unset"

Pair(status_, result_) == [value |-> result_, status |-> status_]

\* Order::fromJSON fills the order from the JSON object of one order and
\* answers an error for anything else.
fromJSON(body) ==
  IF body = "order" THEN Pair(Status(0, Message("", "", 0, "")), "order")
  ELSE Pair(ParseError(body), NoOrder)

\* The loop of getOrders and cancelOrders over the parsed document.  GetArray
\* on a document that is not an array is an assertion failure in a build with
\* assertions and undefined without them; the outcomes kept here are the
\* abort and a loop over no elements.
OrdersOf(body) ==
  IF body = "text" THEN {[fault |-> "none", pair |-> Pair(ParseError(body), <<>>)]}
  ELSE IF body = "orders"
  THEN {[fault |-> "none", pair |-> Pair(Status(0, Message("", "", 0, "")), <<"order">>)]}
  ELSE {[fault |-> "assert", pair |-> Pair(Status(0, Message("", "", 0, "")), <<>>)],
        [fault |-> "none", pair |-> Pair(Status(0, Message("", "", 0, "")), <<>>)]}

OrderUrl(nested) ==
  IF nested THEN "/v2/orders/id?nested=true" ELSE "/v2/orders/id"

getOrder(nested, resp) ==
  LET url == OrderUrl(nested)
  IN IF ~resp.present THEN Pair(EmptyResponse(url), NoOrder)
     ELSE IF resp.status # 200 THEN Pair(HttpError(url, resp), NoOrder)
     ELSE fromJSON(resp.body)

getOrderByClientOrderID(resp) ==
  LET url == "/v2/orders:by_client_order_id?client_order_id=id"
  IN IF ~resp.present THEN Pair(EmptyResponse(url), NoOrder)
     ELSE IF resp.status # 200 THEN Pair(HttpError(url, resp), NoOrder)
     ELSE fromJSON(resp.body)

getOrders(resp) ==
  LET url == "/v2/orders?query"
  IN IF ~resp.present
     THEN {[fault |-> "none", pair |-> Pair(EmptyResponse(url), <<>>)]}
     ELSE IF resp.status # 200
     THEN {[fault |-> "none", pair |-> Pair(HttpError(url, resp), <<>>)]}
     ELSE OrdersOf(resp.body)

submitOrder(resp) ==
  LET url == "/v2/orders"
  IN IF ~resp.present THEN Pair(EmptyResponse(url), NoOrder)
     ELSE IF resp.status # 200 THEN Pair(HttpError(url, resp), NoOrder)
     ELSE fromJSON(resp.body)

replaceOrder(resp) ==
  LET url == "/v2/orders/id"
  IN IF ~resp.present THEN Pair(EmptyResponse(url), NoOrder)
     ELSE IF resp.status # 200 THEN Pair(HttpError(url, resp), NoOrder)
     ELSE fromJSON(resp.body)

cancelOrders(resp) ==
  LET url == "/v2/orders"
  IN IF ~resp.present
     THEN {[fault |-> "none", pair |-> Pair(EmptyResponse(url), <<>>)]}
     ELSE IF resp.status # 200 /\ resp.status # 207
     THEN {[fault |-> "none", pair |-> Pair(HttpError(url, resp), <<>>)]}
     ELSE OrdersOf(resp.body)

\* resp answers the DELETE; second answers the GET that cancelOrder sends
\* through getOrder(id) after a 204.
cancelOrder(resp, second) ==
  LET url == "/v2/orders/id"
  IN IF ~resp.present THEN Pair(EmptyResponse(url), NoOrder)
     ELSE IF resp.status = 204 THEN getOrder(FALSE, second)
     ELSE IF resp.status # 200 THEN Pair(HttpError(url, resp), NoOrder)
     ELSE fromJSON(resp.body)

\* The record of one call: the operation, what the transport answered to its
\* request (and to the follow-up request of cancelOrder), and the pair returned.
OrderOp(name_, resp_, second_, pair_) ==
  [result |-> pair_, name |-> name_, resp |-> resp_, second |-> second_]

InitOrders ==
  /\ now = StartNow
  /\ ticks = 0
  /\ sma_bars = Queue(0)
  /\ heap = EmptyHeap
  /\ fault = "none"
  /\ dropped = 0
  /\ log = <<>>
  /\ op = OrderOp("init", Response(NoResponse), Response(NoResponse),
                 Pair(Status(0, Message("", "", 0, "")), NoOrder))

GetOrder ==
  \E nested \in BOOLEAN, t \in Transport :
    /\ fault = "none"
    /\ op' = OrderOp(IF nested THEN "getOrder nested" ELSE "getOrder",
                     Response(t), Response(NoResponse), getOrder(nested, Response(t)))
    /\ UNCHANGED <<now, ticks, sma_bars, heap, fault, dropped, log>>

GetOrderByClientOrderID ==
  \E t \in Transport :
    /\ fault = "none"
    /\ op' = OrderOp("getOrderByClientOrderID", Response(t), Response(NoResponse),
                     getOrderByClientOrderID(Response(t)))
    /\ UNCHANGED <<now, ticks, sma_bars, heap, fault, dropped, log>>

GetOrders ==
  \E t \in Transport : \E outcome \in getOrders(Response(t)) :
    /\ fault = "none"
    /\ op' = OrderOp("getOrders", Response(t), Response(NoResponse), outcome.pair)
    /\ fault' = outcome.fault
    /\ UNCHANGED <<now, ticks, sma_bars, heap, dropped, log>>

SubmitOrder ==
  \E t \in Transport :
    /\ fault = "none"
    /\ op' = OrderOp("submitOrder", Response(t), Response(NoResponse), submitOrder(Response(t)))
    /\ UNCHANGED <<now, ticks, sma_bars, heap, fault, dropped, log>>

ReplaceOrder ==
  \E t \in Transport :
    /\ fault = "none"
    /\ op' = OrderOp("replaceOrder", Response(t), Response(NoResponse), replaceOrder(Response(t)))
    /\ UNCHANGED <<now, ticks, sma_bars, heap, fault, dropped, log>>

CancelOrders ==
  \E t \in Transport : \E outcome \in cancelOrders(Response(t)) :
    /\ fault = "none"
    /\ op' = OrderOp("cancelOrders", Response(t), Response(NoResponse), outcome.pair)
    /\ fault' = outcome.fault
    /\ UNCHANGED <<now, ticks, sma_bars, heap, dropped, log>>

\* The follow-up request is sent only after a 204.
CancelOrder ==
  \E t \in Transport :
    \E u \in IF t[1] /\ t[2] = 204 THEN Transport ELSE {NoResponse} :
      /\ fault = "none"
      /\ op' = OrderOp("cancelOrder", Response(t), Response(u),
                       cancelOrder(Response(t), Response(u)))
      /\ UNCHANGED <<now, ticks, sma_bars, heap, fault, dropped, log>>

NextOrders ==
  \/ GetOrder
  \/ GetOrderByClientOrderID
  \/ GetOrders
  \/ SubmitOrder
  \/ ReplaceOrder
  \/ CancelOrders
  \/ CancelOrder

SpecOrders == InitOrders /\ [][NextOrders]_vars

\* ------------------------------------------------ one level of get_ema
\* The return statement of the recursive get_ema for every offset and
\* remaining count up to MaxOffset, the close of the bar under the iterator
\* and a value of the recursive call.
MaxOffset == 4
Rests == {0, 100, 206}

InitEma ==
  /\ now = StartNow
  /\ ticks = 0
  /\ sma_bars = Queue(0)
  /\ heap = EmptyHeap
  /\ fault = "none"
  /\ dropped = 0
  /\ log = <<>>
  /\ \E offset \in 0..MaxOffset, adjOffset \in 0..MaxOffset, c \in Closes, rest \in Rests :
       op = [name |-> "init", offset |-> offset, adjOffset |-> adjOffset,
             close |-> c, rest |-> rest, weight |-> Zero, val |-> Zero]

GetEmaLevel ==
  /\ op.name = "init"
  /\ op' = [op EXCEPT !.name = "get_ema",
                      !.weight = <<EmaWeight(op.offset), 1>>,
                      !.val = EmaLevel(op.close, op.offset, op.rest)]
  /\ UNCHANGED <<now, ticks, sma_bars, heap, fault, dropped, log>>

NextEma == GetEmaLevel

SpecEma == InitEma /\ [][NextEma]_vars

\* ------------------------------------------------------------------ claims
\* A step that is one call of update_bars, alone or at the start of get_sma.
UpdateStep == op'.name \in {"update_bars", "get_sma"} /\ vars' # vars

\* The last call ran update_bars.
Updated == op.name \in {"update_bars", "get_sma"}

\* C1: the window's size never exceeds its capacity, for every capacity and
\* every sequence of update calls.
C1_CapacityInvariant == sma_bars.size <= sma_bars.max_size

\* C2: whenever size equals capacity, the minute-stamps of the slots read from
\* head to tail never go back and never repeat a minute.
C2_FifoOrdering ==
  (fault = "none" /\ sma_bars.size = sma_bars.max_size) =>
    \A i \in 1..Len(Slots) : \A j \in 1..Len(Slots) :
      (i < j /\ Slots[i].ptr = "live" /\ Slots[j].ptr = "live")
        => ToMin(Stamp(Slots[i])) < ToMin(Stamp(Slots[j]))

\* C3: an update of a full window (here: of two slots or more) in a new minute
\* for which the source has no data leaves the window exactly as it was:
\* nothing evicted, nothing appended, size still equal to capacity.
C3_RolloverNoDataAbandoned ==
  [][(/\ UpdateStep
      /\ sma_bars.max_size >= 2
      /\ sma_bars.size = sma_bars.max_size
      /\ op'.branch = "rollover"
      /\ op'.first.ptr = "null")
     => (sma_bars' = sma_bars /\ Slots' = Slots)]_vars

\* C4: a full window whose last observed minute is M, updated at minute M+1
\* for which the source has data, loses exactly its oldest slot and gains the
\* bar of M+1 as its newest, the other slots keeping their order; size stays
\* equal to capacity.
C4_EvictionOnRollover ==
  [][(/\ UpdateStep
      /\ fault = "none"
      /\ sma_bars.size = sma_bars.max_size
      /\ now = TimeInc(LastObserved(sma_bars))
      /\ op'.first.ptr = "live")
     => (/\ fault' = "none"
         /\ op'.branch = "rollover"
         /\ sma_bars'.size = sma_bars'.max_size
         /\ Len(Slots) >= 1
         /\ Slots' = Tail(Slots) \o <<op'.first>>
         /\ Stamp(op'.first) = now)]_vars

C4_Witness ==
  /\ Updated /\ fault = "none"
  /\ op.branch = "rollover" /\ op.first.ptr = "live"
  /\ now = TimeInc(op.last)
  /\ sma_bars.max_size >= 2
  /\ sma_bars.size = sma_bars.max_size
  /\ Stamps[Len(Stamps)] = now

C6_FillResumes ==
  [][(/\ UpdateStep
      /\ fault = "none" /\ fault' = "none"
      /\ op'.branch = "fill")
     => (/\ Len(Slots') >= Len(Slots)
         /\ \A i \in 1..(Len(Slots') - Len(Slots)) : \A j \in 1..Len(Slots) :
              Slots[j].ptr = "live"
                => ToMin(Stamp(Slots'[i])) < ToMin(Stamp(Slots[j])))]_vars

\* C7: a fill-phase update whose first candidate minute has no data changes
\* nothing (no slot added, evicted or altered); over a run of such calls, three
\* included, size stays what it was when the run began; a fill-phase update
\* whose candidate has data grows the window and keeps the slots it held.
C7_GapHandling ==
  /\ [](op.gaps >= 1 => sma_bars.size = op.gapsize)
  /\ [][(/\ UpdateStep
         /\ fault = "none"
         /\ op'.branch = "fill")
        => (/\ fault' = "none"
            /\ (op'.first.ptr = "null" => (sma_bars' = sma_bars /\ heap' = heap))
            /\ (op'.first.ptr = "live" => sma_bars'.size > sma_bars.size)
            /\ Len(Slots') >= Len(Slots)
            /\ SubSeq(Slots', Len(Slots') - Len(Slots) + 1, Len(Slots')) = Slots)]_vars

C7_Witness ==
  /\ Updated /\ fault = "none"
  /\ op.branch = "fill" /\ op.first.ptr = "null"
  /\ op.gaps = 3
  /\ sma_bars.size >= 1
  /\ sma_bars.size = op.gapsize

\* C8: capacity 3, bars for 09:30, 09:31, 09:32 and 09:34 only: after exactly
\* three update calls at 09:32 the window reads [09:30, 09:31, 09:32]; after a
\* fourth made at 09:34 it reads [09:31, 09:32, 09:34].
C8_Scenario ==
  /\ (log = <<<<9, 32>>, <<9, 32>>, <<9, 32>>>>
        => (sma_bars.size = 3
            /\ Stamps = <<<<9, 30>>, <<9, 31>>, <<9, 32>>>>))
  /\ (log = <<<<9, 32>>, <<9, 32>>, <<9, 32>>, <<9, 34>>>>
        => (sma_bars.size = 3
            /\ Stamps = <<<<9, 31>>, <<9, 32>>, <<9, 34>>>>))

C8_Witness ==
  /\ log = <<<<9, 32>>, <<9, 32>>, <<9, 32>>, <<9, 34>>>>
  /\ now = <<9, 34>>
  /\ Len(Slots) = 3

\* The sum of the close prices of the k newest slots, walked from the tail.
RECURSIVE SumNewest(_)
SumNewest(k) ==
  IF k = 0 \/ k > Len(SlotsBack) THEN 0
  ELSE SlotsBack[k].close + SumNewest(k - 1)

\* C9: get_sma(k) with 1 <= k <= size returns the sum of the close prices of
\* the k newest slots of the updated window divided by k (stated here for the
\* windows of capacity two or more).
C9_SmaCorrect ==
  (/\ op.name = "get_sma"
   /\ sma_bars.max_size >= 2
   /\ op.offset >= 1
   /\ op.offset <= sma_bars.size)
  => (/\ fault = "none"
      /\ Len(SlotsBack) >= op.offset
      /\ \A i \in 1..op.offset : SlotsBack[i].ptr = "live"
      /\ op.val[1] * op.offset = SumNewest(op.offset) * op.val[2])

\* C10: get_sma(offset) and get_ema(offset) return 0 whenever offset exceeds
\* the capacity or the size of the window.
C10_Sentinel ==
  (/\ op.name \in {"get_sma", "get_ema"}
   /\ (op.offset > sma_bars.max_size \/ op.offset > sma_bars.size))
  => (fault = "none" /\ op.val = Zero)

\* C11: get_ema(offset) with 1 <= offset <= size visits the offset newest
\* bars, stops at the oldest of them and returns a value: it never steps the
\* iterator off the head of the chain.
C11_EmaTerminates ==
  (/\ op.name = "get_ema"
   /\ op.offset >= 1
   /\ op.offset <= sma_bars.size
   /\ op.offset <= sma_bars.max_size)
  => fault = "none"

\* C12: every call of get_sma and of get_ema runs update_bars on the window it
\* finds, in the branch that window calls for, before it reads the window.
C12_UpdatePrecedesRead ==
  [][(op'.name \in {"get_sma", "get_ema"} /\ fault = "none")
     => op'.branch = Branch(sma_bars, now)]_vars

\* C13: in every state with size equal to capacity (right after the fill phase
\* completes included) the chain holds exactly capacity slots and the stamp of
\* the newest slot is last_hour:last_min.
C13_NewestIsLastObserved ==
  (/\ fault = "none"
   /\ sma_bars.max_size >= 1
   /\ sma_bars.size = sma_bars.max_size)
  => (/\ Len(Slots) = sma_bars.max_size
      /\ Len(SlotsBack) = sma_bars.max_size
      /\ SlotsBack[1].ptr = "live"
      /\ Stamp(SlotsBack[1]) = LastObserved(sma_bars))

\* C14: last_hour:last_min change only on a successful evict-append, which
\* sets them to the now it observed; a fill-phase call, a same-minute refresh,
\* a rollover without data, get_ema and the passing of time leave them alone.
C14_LastObservedFrame ==
  [][(fault = "none")
     => IF UpdateStep /\ op'.branch = "rollover" /\ op'.first.ptr = "live"
           /\ fault' = "none"
        THEN LastObserved(sma_bars') = now
        ELSE LastObserved(sma_bars') = LastObserved(sma_bars)]_vars

C14_Witness ==
  /\ Updated /\ fault = "none"
  /\ op.branch = "rollover" /\ op.first.ptr = "live"
  /\ op.last # NoTime /\ op.last # now
  /\ LastObserved(sma_bars) = now
  /\ sma_bars.max_size >= 2

\* C15: when the source fails during an update call the failure reaches the
\* caller and the window is exactly what it was before the call: slots, size,
\* head, tail and last_hour:last_min.
C15_SourceFailureAtomic ==
  [][(fault = "none" /\ fault' = "exception")
     => (/\ sma_bars' = sma_bars
         /\ Slots' = Slots
         /\ SlotsBack' = SlotsBack)]_vars

\* C16: every Bar obtained from the source is held by exactly one slot or has
\* been destroyed exactly once: no call drops a Bar without deleting it, no Bar
\* is deleted twice, and no slot reachable from head or tail holds a deleted Bar.
C16_BarOwnership ==
  /\ dropped = 0
  /\ fault # "double_free"
  /\ \A p \in DOMAIN heap : ~heap[p].freed => heap[p].value.ptr # "freed"

\* C17 as stated: on a Time with minute in 0..59 increment gives minute+1 and
\* the same hour, or minute 0 and hour+1 at minute 59; decrement gives
\* minute-1 and the same hour, or minute 59 and hour-1 at minute 0; the minute
\* stays in 0..59; equality depends on hour and minute only.
C17_ClockArithmeticAsStated ==
  /\ [](now[2] \in 0..59)
  /\ [](op.name = "cmp" =>
          /\ op.eq = (now[1] = op.other[1] /\ now[2] = op.other[2])
          /\ op.ne = ~op.eq)
  /\ [][(op'.name = "inc" =>
           now' = IF now[2] = 59 THEN <<now[1] + 1, 0, now[3]>>
                  ELSE <<now[1], now[2] + 1, now[3]>>)
        /\ (op'.name = "dec" =>
              now' = IF now[2] = 0 THEN <<now[1] - 1, 59, now[3]>>
                     ELSE <<now[1], now[2] - 1, now[3]>>)]_vars

\* C17, amended: the same, the hour being an unsigned short: hour+1 and hour-1
\* are taken modulo 2^16, so the decrement of 0:00 is 65535:59.
C17_ClockArithmetic ==
  /\ [](now[2] \in 0..59)
  /\ [](op.name = "cmp" =>
          /\ op.eq = (now[1] = op.other[1] /\ now[2] = op.other[2])
          /\ op.ne = ~op.eq)
  /\ [][(op'.name = "inc" =>
           now' = IF now[2] = 59 THEN <<(now[1] + 1) % U16, 0, now[3]>>
                  ELSE <<now[1], now[2] + 1, now[3]>>)
        /\ (op'.name = "dec" =>
              now' = IF now[2] = 0 THEN <<(now[1] - 1) % U16, 59, now[3]>>
                     ELSE <<now[1], now[2] - 1, now[3]>>)]_vars

C17_Witness ==
  /\ op.name = "dec"
  /\ op.other[1] = 0 /\ op.other[2] = 0
  /\ now[1] = U16 - 1 /\ now[2] = 59 /\ now[3] = op.other[3]

\* The minutes of the inclusive range from..to in chronological order, none
\* when to precedes from.
MinutesOf(from, to) ==
  [k \in 1..(ToMin(to) - ToMin(from) + 1) |->
     <<(ToMin(from) + k - 1) \div 60, (ToMin(from) + k - 1) % 60>>]

\* C18: get_bars asks get_bar exactly once for each minute of the inclusive
\* range, in chronological order and with the right hour, and returns exactly
\* the bars of the minutes that have data, in that order; it returns nothing
\* when the end precedes the start.
C18_RangeFetch ==
  op.name = "get_bars" =>
    LET want == MinutesOf(op.from, op.to)
        has(t) == op.src[t] # NoData
    IN /\ log = want
       /\ op.bars = [k \in 1..Len(SelectSeq(want, has)) |->
                       LET t == SelectSeq(want, has)[k]
                       IN Bar(t[1], t[2], op.src[t])]
       /\ (ToMin(op.to) < ToMin(op.from) => op.bars = <<>>)

C18_Witness ==
  /\ op.name = "get_bars"
  /\ op.from = <<9, 58>> /\ op.to = <<10, 1>>
  /\ log = <<<<9, 58>>, <<9, 59>>, <<10, 0>>, <<10, 1>>>>
  /\ Len(op.bars) = 3

\* C19: get_bar returns NULL exactly when the minute has no trade tick; when
\* it has at least one, whatever the prices, it returns a Bar whose open is
\* the first tick's price, close the last one's, low the least and high the
\* greatest of the prices.
C19_SingleMinuteFetch ==
  op.name = "get_bar" =>
    LET c == op.cursor
    IN /\ (op.bar.ptr = "null") <=> (Len(c) = 0)
       /\ Len(c) > 0 =>
            /\ op.bar.ptr = "live"
            /\ op.bar.hour = now[1] /\ op.bar.minute = now[2]
            /\ op.bar.open = c[1]
            /\ op.bar.close = c[Len(c)]
            /\ \A k \in 1..Len(c) : op.bar.low <= c[k] /\ c[k] <= op.bar.high
            /\ \E k \in 1..Len(c) : op.bar.low = c[k]
            /\ \E k \in 1..Len(c) : op.bar.high = c[k]

\* C20: peek and the value of the iterators begin() and begin_from_end() on a
\* window with no slots return no Bar and leave the window as it is; none of
\* them dereferences a missing node.
C20_PeekEmpty ==
  /\ [](op.name \in {"peek", "begin", "begin_from_end"} =>
          /\ fault = "none"
          /\ op.empty => op.bar.ptr = "null")
  /\ [][op'.name \in {"peek", "begin", "begin_from_end"} =>
          (sma_bars' = sma_bars /\ heap' = heap)]_vars

OrderOps ==
  {"getOrder", "getOrder nested", "getOrderByClientOrderID", "getOrders",
   "submitOrder", "replaceOrder", "cancelOrders", "cancelOrder"}

\* The body the brokerage sends for the operation when it succeeds: an array
\* of orders for the two operations on all orders, one order for the others.
Parsed(name_) ==
  IF name_ \in {"getOrders", "cancelOrders"} THEN <<"order">> ELSE "order"

WellFormed(name_, body) ==
  IF name_ \in {"getOrders", "cancelOrders"} THEN body = "orders" ELSE body = "order"

\* C21: every order operation returns an error status when the transport
\* yields no response, an error carrying the HTTP status and the body when the
\* status of the response is not 2xx, and the parsed result with a success
\* status for every 2xx response (whose body is the one the operation expects).
C21_ResultOrError ==
  (op.name \in OrderOps /\ fault = "none") =>
    LET r == op.resp
        s == op.result.status
    IN /\ ~r.present => (~ok(s) /\ s.message.what = "empty response")
       /\ (r.present /\ r.status \notin 200..299) =>
            /\ ~ok(s)
            /\ s.message.what = "HTTP"
            /\ s.message.status = r.status
            /\ s.message.body = r.body
       /\ (r.present /\ r.status \in 200..299 /\ WellFormed(op.name, r.body)) =>
            /\ ok(s)
            /\ op.result.value = Parsed(op.name)

\* C22: at every level of the get_ema recursion the close of the current bar
\* is multiplied by 2/(offset+1) taken from the original offset, a fraction
\* strictly between 0 and 1 for offset >= 2, and not from the remaining
\* count; the product is added to the value of the recursive call.
C22_EmaWeight ==
  op.name = "get_ema" =>
    /\ op.weight[1] * (op.offset + 1) = 2 * op.weight[2]
    /\ op.offset >= 2 => (0 < op.weight[1] /\ op.weight[1] < op.weight[2])
    /\ op.val[1] * (op.offset + 1) =
         (2 * op.close + op.rest * (op.offset + 1)) * op.val[2]

\* C23: in every reachable state each node of the chain from head to tail
\* holds a non-null Bar, also after a same-minute refresh for which the
\* source has no data, so get_sma(k) with 1 <= k <= size never returns the
\* sentinel 0 because a Bar is missing.
C23_EverySlotHoldsBar ==
  fault = "none" =>
    /\ \A i \in 1..Len(Slots) : Slots[i].ptr # "null"
    /\ \A i \in 1..Len(SlotsBack) : SlotsBack[i].ptr # "null"
    /\ (/\ op.name = "get_sma"
        /\ 1 <= op.offset
        /\ op.offset <= sma_bars.size
        /\ op.offset <= sma_bars.max_size) => op.val # Zero

\* C24: after any sequence of enqueueHead, enqueue, dequeue and update calls,
\* size is the number of nodes reached from head by next and the number
\* reached from tail by prev, the two walks visit the same nodes in opposite
\* order, head.prev and tail.next are null, and head is null exactly when
\* tail is null, which is exactly when size is 0.
C24_ChainConsistency ==
  fault = "none" =>
    /\ Len(FromHead) = sma_bars.size
    /\ Len(FromTail) = sma_bars.size
    /\ Len(FromHead) = Len(FromTail)
    /\ \A i \in 1..Len(FromHead) :
         i <= Len(FromTail) => FromHead[i] = FromTail[Len(FromTail) + 1 - i]
    /\ sma_bars.head # NULL => heap[sma_bars.head].prev = NULL
    /\ sma_bars.tail # NULL => heap[sma_bars.tail].next = NULL
    /\ (sma_bars.head = NULL) <=> (sma_bars.tail = NULL)
    /\ (sma_bars.head = NULL) <=> (sma_bars.size = 0)

\* C25: for every capacity >= 0, 0 and 1 included, and every sequence of
\* update calls, update_bars never dereferences a null or an already freed
\* node: tail and tail->prev exist whenever the same-minute branch reads them
\* and head exists whenever dequeue is called.
C25_UpdateMemorySafe ==
  op.name = "update_bars" => fault \notin {"null_deref", "use_after_free"}

====
